---- MODULE Spec2Model ----
(***************************************************************************)
(* A model of the two relay scripts of the repository:                     *)
(*   bridge.py    scan_blocks(chain, contract_info)                        *)
(*   listener.py  scan_blocks(chain, start_block, end_block, eventfile)    *)
(* Each scans one chain for Deposit / Unwrap events and calls wrap /       *)
(* withdraw for every event found.  The two chains, their logs and the     *)
(* transaction counts of the warden accounts are the environment; every    *)
(* RPC or library call of the scripts may succeed or raise.                *)
(***************************************************************************)
EXTENDS Integers, Sequences, FiniteSets, TLC

\* ---------------------------------------------------------------- bounds
MaxHead == 1
MaxLogs == 2
MaxCycles == 2
\* how many calls (RPC, library, configuration lookups) may fail in one run
MaxFaults == 1
\* the highest head a chain starts with when the scan windows are examined
MaxLatest == 6

\* ------------------------------------------------------ program constants
\* bridge.py scans "the last 5 blocks": start_block = max(0, latest - 5)
LAG == 5
\* listener.py 164-165: the blocks before the head that __main__ scans
MAIN_LAG == 5

Chain == {"source", "destination"}
\* chain names a caller may pass to scan_blocks
ChainNames == Chain \cup {"avax"}
None == "None"
Tokens == {"0xAaA"}
Recipients == {"0xBbB"}
Amounts == {1000}
\* the numbers a caller passes as listener.py's start_block and end_block (or "latest")
StartArgs == {0}
EndArgs == {0}

VARIABLES
    head,       \* head[c]: w3.eth.block_number of chain c
    logs,       \* the event logs the bridge contracts have emitted
    txCount,    \* txCount[c][a]: get_transaction_count(a) on chain c
    keyCfg,     \* keyCfg[c]: warden_private_key of chain c in contract_info.json
    cycles,     \* every scan_blocks call made so far, running or ended
    attempts,   \* attempts[i]: one record per event cycle i has processed, in order
    eventfile,  \* the rows of bridge_logs.csv
    faults      \* how many calls have failed so far

vars == <<head, logs, txCount, keyCfg, cycles, attempts, eventfile, faults>>

\* ------------------------------------------------------------- helpers
Max(a, b) == IF a >= b THEN a ELSE b

\* all orders in which the members of S can be listed
Orders(S) ==
    {f \in [1..Cardinality(S) -> S] : \A i, j \in 1..Cardinality(S) : f[i] = f[j] => i = j}

\* a variant where both directions relay to the destination chain
opp_chain_always_destination(chain) == "destination"

\* bridge.py 115: opp_chain = 'destination' if chain == 'source' else 'source'
opp_chain(chain) == IF chain = "source" THEN "destination" ELSE "source"

\* the account that contract_info.json's warden_private_key of chain c signs for
warden(c) == IF c = "source" THEN "warden_source" ELSE "warden_destination"
Account == {warden(c) : c \in Chain}

\* the event each bridge contract emits
event_of(c) == IF c = "source" THEN "Deposit" ELSE "Unwrap"

\* the two ways a bridge contract's ABI names the token and recipient fields of an
\* event: token/recipient or underlying_token/to (the amount is "amount" in both)
Namings == {"token_recipient", "underlying_to"}

\* the names the deployed contracts use (the comments at bridge.py 203 and 211):
\* Deposit(token, recipient, amount), Unwrap(underlying_token, wrapped_token, frm, to, amount)
names_of(kind) == IF kind = "Deposit" THEN "token_recipient" ELSE "underlying_to"

\* evt.args.get(name): the decoded fields of an event, by the name its ABI gives them;
\* None for a name the event does not carry
args_get(evt, name) ==
    CASE evt.names = "token_recipient" /\ name = "token"          -> evt.token
      [] evt.names = "token_recipient" /\ name = "recipient"      -> evt.recipient
      [] evt.names = "underlying_to" /\ name = "underlying_token" -> evt.token
      [] evt.names = "underlying_to" /\ name = "to"               -> evt.recipient
      [] name = "amount"                                          -> evt.amount
      [] OTHER                                                    -> None

\* Web3.to_checksum_address: the EIP-55 spelling of an address; raises on anything else
to_checksum_address(a) ==
    CASE a \in {"0xaaa", "0xAaA"} -> "0xAaA"
      [] a \in {"0xbbb", "0xBbB"} -> "0xBbB"
      [] OTHER                   -> None

\* the (transaction hash, log index) provenance of a log
EvtId(evt) == <<evt.chain, evt.blk, evt.idx>>

\* ------------------------------------------------------- bridge.py pieces
target_fn_name_always_wrap(chain) == "wrap"

\* bridge.py 140-152
target_fn_name(chain) == IF chain = "source" THEN "wrap" ELSE "withdraw"

\* bridge.py 140-152: the event the filter is created for
bridge_event_name(chain) == IF chain = "source" THEN "Deposit" ELSE "Unwrap"

\* bridge.py 204-217
bridge_call_args(chain, evt) ==
    IF chain = "source"
    THEN <<to_checksum_address(args_get(evt, "token")),
           to_checksum_address(args_get(evt, "recipient")),
           args_get(evt, "amount")>>
    ELSE <<to_checksum_address(args_get(evt, "underlying_token")),
           to_checksum_address(args_get(evt, "to")),
           args_get(evt, "amount")>>

\* bridge.py 163-164
bridge_start_block(latest) == Max(0, latest - LAG)

opp_private_key_of_this_chain(chain) == keyCfg[chain] = "ok"

\* bridge.py 180-193: whether a usable warden key of the opposite chain was found
opp_private_key(chain) == keyCfg[opp_chain(chain)] = "ok"

\* ----------------------------------------------------- listener.py pieces
\* listener.py 69-82: everything but 'source' takes the else branch
listener_scanned(chain) == IF chain = "source" THEN "source" ELSE "destination"

target_fn_always_wrap(chain) == "wrap"

\* listener.py 69-82
target_fn(chain) == IF chain = "source" THEN "wrap" ELSE "withdraw"

\* listener.py 69-82
listener_event_name(chain) == IF chain = "source" THEN "Deposit" ELSE "Unwrap"

\* listener.py 111-124
listener_call_args(chain, evt) ==
    IF chain = "source"
    THEN <<to_checksum_address(args_get(evt, "token")),
           to_checksum_address(args_get(evt, "recipient")),
           args_get(evt, "amount")>>
    ELSE <<to_checksum_address(args_get(evt, "underlying_token")),
           to_checksum_address(args_get(evt, "to")),
           args_get(evt, "amount")>>

\* listener.py 85-88: a block argument is a number or the string "latest"
resolve_block(is_latest, b, c) == IF is_latest THEN head[c] ELSE b

\* listener.py 48-58: nothing is written for no rows, else the rows are appended
log_events(rows, file) == IF rows = <<>> THEN file ELSE file \o rows

\* ------------------------------------------------------------ the state
\* a key that is present but invalid is treated as a missing one (bridge.py 186-189)
KeyStates == {"ok", "missing"}

Init ==
    /\ head = [c \in Chain |-> 0]
    /\ logs = {}
    /\ txCount = [c \in Chain |-> [a \in Account |-> 0]]
    /\ keyCfg \in [Chain -> KeyStates]
    /\ cycles = <<>>
    /\ attempts = <<>>
    /\ eventfile = <<>>
    /\ faults = 0

\* the cycles in flight that scan chain d; a new cycle for d starts only when there is
\* none (the scripts are run one call after the other per chain)
Running(d) == {i \in 1..Len(cycles) : cycles[i].status = "running" /\ cycles[i].dir = d}

NewCycle(prog, arg, d) ==
    [prog |-> prog, arg |-> arg, dir |-> d, status |-> "running", stage |-> "start",
     ret |-> -1, start |-> 0, end |-> 0, blk |-> 0, queue |-> <<>>, key |-> FALSE,
     rows |-> <<>>, fetched |-> {}, failed |-> {}, nfound |-> 0, count0 |-> 0]

\* nonce_src: where the nonce of the transaction came from: "chain" (the count read),
\* "failed" (the read raised), "placeholder" (no account to read for), "none" (not reached)
Attempt(i, evt, fn, args, nonce, nonce_src, on, from, outcome) ==
    [cyc |-> i, prog |-> cycles[i].prog, dir |-> cycles[i].dir, evt |-> evt, fn |-> fn,
     args |-> args, nonce |-> nonce, nonce_src |-> nonce_src, on |-> on, from |-> from,
     outcome |-> outcome]

\* the positions <<cycle, k>> of all attempts made so far
Made == {p \in (1..Len(attempts)) \X (1..MaxLogs) : p[2] <= Len(attempts[p[1]])}
At(p) == attempts[p[1]][p[2]]
\* the transactions that were broadcast
Sent == {p \in Made : At(p).outcome = "sent"}

\* ------------------------------------------------------- the environment
\* A chain produces its next block; the bridge contract emits k events in it, their
\* fields named in one of the ways of `namings`.
Emit(c, k, namings) ==
    /\ head[c] < MaxHead
    /\ Cardinality(logs) + k <= MaxLogs
    /\ \E pay \in [1..k -> Tokens \X Recipients \X Amounts], names \in namings :
          logs' = logs \cup
              {[chain |-> c, kind |-> event_of(c), names |-> names,
                blk |-> head[c] + 1, idx |-> j - 1,
                token |-> pay[j][1], recipient |-> pay[j][2], amount |-> pay[j][3]]
               : j \in 1..k}
    /\ head' = [head EXCEPT ![c] = @ + 1]
    /\ UNCHANGED <<txCount, keyCfg, cycles, attempts, eventfile, faults>>

\* the contracts as deployed
MineBlock(c, k) == Emit(c, k, {names_of(event_of(c))})

\* a contract whose ABI may name the fields either way
MineBlockAlias(c, k) == Emit(c, k, Namings)

\* A chain includes the broadcast transaction of account a that carries a's next
\* nonce: from then on get_transaction_count(a) reports one more.
Confirm(c, a) ==
    /\ \E p \in Sent :
          /\ At(p).on = c
          /\ At(p).from = a
          /\ At(p).nonce = txCount[c][a]
    /\ txCount' = [txCount EXCEPT ![c][a] = @ + 1]
    /\ UNCHANGED <<head, logs, keyCfg, cycles, attempts, eventfile, faults>>

\* ---------------------------------------------------- bridge.py scan_blocks
SetCycle(i, r) == [cycles EXCEPT ![i] = r]

Ended(c, status, stage, ret) == [c EXCEPT !.status = status, !.stage = stage, !.ret = ret]

\* a variant that also answers 0 when the window holds no event
bridge_return_zero_without_events(stage) ==
    IF stage \in {"invalid_chain", "config", "head", "fetch", "no_events"} THEN 0 ELSE 1

\* the value scan_blocks returns at each of its return statements: 0 at 102, 123,
\* 129, 132, 135, 161 and 173, 1 at 177 and 286
bridge_return(stage) ==
    IF stage \in {"invalid_chain", "config", "head", "fetch"} THEN 0 ELSE 1

\* a variant that loads the contract info only after the logs were fetched
on_config_error_after_fetch(c0, c1) ==
    Ended([c1 EXCEPT !.fetched = c1.start..c1.end], "returned", "config",
          bridge_return("config"))

\* bridge.py 109-135: the contract info of either chain cannot be read, or lacks
\* the address or the abi. c0 is the cycle as it started, c1 the cycle with the
\* window it would scan: the return comes before the head is read.
on_config_error(c0, c1) == Ended(c0, "returned", "config", bridge_return("config"))

\* the logs a filter over [from, to] of chain c for event `name` returns
FilterLogs(c, name, from, to) ==
    {l \in logs : l.chain = c /\ l.kind = name /\ from <= l.blk /\ l.blk <= to}

\* bridge.py 100-193: from the call to the start of the loop over the events.
\* outcome: which of the calls that can raise does (the first one that fails).
BridgeStart(chain) ==
    /\ Len(cycles) < MaxCycles
    /\ IF chain \notin {"source", "destination"}
       THEN \* 100-102
            /\ cycles' = Append(cycles,
                   Ended(NewCycle("bridge", chain, chain), "returned", "invalid_chain",
                         bridge_return("invalid_chain")))
            /\ faults' = faults
       ELSE /\ Running(chain) = {}
            /\ \E outcome \in {"config", "head", "fetch", "ok"} :
                 /\ faults' = IF outcome = "ok" THEN faults ELSE faults + 1
                 /\ faults' <= MaxFaults
                 /\ LET c0 == NewCycle("bridge", chain, chain)
                         latest == head[chain]
                         start_block == bridge_start_block(latest)
                         end_block == latest
                         c1 == [c0 EXCEPT !.start = start_block, !.end = end_block]
                         found == FilterLogs(chain, bridge_event_name(chain),
                                             start_block, end_block)
                     IN  CASE outcome = "config" ->   \* 109-135
                                cycles' = Append(cycles, on_config_error(c0, c1))
                           [] outcome = "head" ->     \* 157-161
                                cycles' = Append(cycles,
                                    Ended(c0, "returned", "head", bridge_return("head")))
                           [] outcome = "fetch" ->    \* 168-173
                                cycles' = Append(cycles,
                                    Ended([c1 EXCEPT !.failed = start_block..end_block],
                                          "returned", "fetch", bridge_return("fetch")))
                           [] OTHER ->
                                IF found = {}
                                THEN \* 175-177
                                     cycles' = Append(cycles,
                                         Ended([c1 EXCEPT !.fetched = start_block..end_block],
                                               "returned", "no_events",
                                               bridge_return("no_events")))
                                ELSE \* 180-193: the events in the order the node returned them
                                     \E order \in Orders(found) :
                                        cycles' = Append(cycles,
                                            [c1 EXCEPT !.fetched = start_block..end_block,
                                                       !.nfound = Cardinality(found),
                                                       !.queue = order,
                                                       !.key = opp_private_key(chain),
                                                       !.count0 = txCount[opp_chain(chain)]
                                                                         [warden(opp_chain(chain))],
                                                       !.stage = "loop"])
    /\ attempts' = Append(attempts, <<>>)
    /\ UNCHANGED <<head, logs, txCount, keyCfg, eventfile>>

\* bridge.py 196-283: one pass of the loop, for the next event.
\*   has_from : opp_info carries a "from_address" (only read when there is no key)
\*   nonce_read : get_transaction_count did not raise (226-236)
\*   outcome : "nofn" 220-223, "gasfail" 249 (not caught), "buildfail" 254-258,
\*             "sent" / "sendfail" 261-267, "dryrun" 268-283
BridgeEvent(i) ==
    /\ i \in 1..Len(cycles)
    /\ cycles[i].prog = "bridge"
    /\ cycles[i].status = "running"
    /\ cycles[i].queue # <<>>
    /\ LET c == cycles[i]
           chain == c.dir
           opp == opp_chain(chain)
           evt == Head(c.queue)
           call_args == bridge_call_args(chain, evt)
           fn == target_fn_name(chain)
       IN  IF None \in {call_args[1], call_args[2]}
           THEN \* 204-217: to_checksum_address raises on None, outside any try
                /\ faults' = faults
                /\ attempts' = [attempts EXCEPT ![i] = Append(@,
                       Attempt(i, evt, fn, call_args, 0, "none", opp, None, "argsfail"))]
                /\ cycles' = SetCycle(i,
                       Ended([c EXCEPT !.queue = Tail(@)], "raised", "exception", -1))
           ELSE
           \E has_from \in BOOLEAN, nonce_read \in BOOLEAN,
              outcome \in {"nofn", "gasfail", "buildfail", "sent", "sendfail", "dryrun"} :
             LET from_address == IF c.key \/ has_from THEN warden(opp) ELSE None
                 nonce_src == CASE outcome = "nofn" -> "none"
                                [] from_address = None -> "placeholder"
                                [] nonce_read -> "chain"
                                [] OTHER -> "failed"
                 nonce == IF nonce_src = "chain" THEN txCount[opp][from_address] ELSE 0
             IN  /\ faults' = faults + (IF from_address # None /\ ~nonce_read THEN 1 ELSE 0)
                                    + (IF outcome \in {"sent", "dryrun"} THEN 0 ELSE 1)
                 /\ faults' <= MaxFaults
                 /\ c.key => ~has_from
                 /\ outcome \in {"sent", "sendfail"} => c.key
                 /\ outcome = "dryrun" => ~c.key
                 /\ from_address = None \/ outcome = "nofn" => nonce_read
                 /\ attempts' = [attempts EXCEPT ![i] = Append(@,
                        Attempt(i, evt, fn, call_args, nonce, nonce_src,
                                opp, from_address, outcome))]
                 /\ cycles' = SetCycle(i,
                        IF outcome = "gasfail"
                        THEN Ended([c EXCEPT !.queue = Tail(@)], "raised", "exception", -1)
                        ELSE [c EXCEPT !.queue = Tail(@)])
    /\ UNCHANGED <<head, logs, txCount, keyCfg, eventfile>>

\* bridge.py 285-286
BridgeFinish(i) ==
    /\ i \in 1..Len(cycles)
    /\ cycles[i].prog = "bridge"
    /\ cycles[i].status = "running"
    /\ cycles[i].queue = <<>>
    /\ cycles' = SetCycle(i, Ended(cycles[i], "returned", "done", bridge_return("done")))
    /\ UNCHANGED <<head, logs, txCount, keyCfg, attempts, eventfile, faults>>

\* -------------------------------------------------- listener.py scan_blocks
\* listener.py 24-43: the module loads both warden keys before anything can be called
ListenerLoaded == \A c \in Chain : keyCfg[c] = "ok"

\* listener.py 129-136
Row(chain, evt) ==
    [chain |-> chain,
     token |-> IF chain = "source" THEN args_get(evt, "token")
               ELSE args_get(evt, "underlying_token"),
     recipient |-> IF chain = "source" THEN args_get(evt, "recipient")
                   ELSE args_get(evt, "to"),
     amount |-> args_get(evt, "amount"),
     transactionHash |-> EvtId(evt),
     address |-> evt.chain]

\* listener.py 69-104: a call with its block arguments resolved, up to the loop over
\* the blocks.
\*   abi_ok : this contract's ABI lists the event (93-100)
ListenerCall(chain, start_block, end_block) ==
    /\ ListenerLoaded
    /\ Len(cycles) < MaxCycles
    /\ Running(listener_scanned(chain)) = {}
    /\ \E abi_ok \in BOOLEAN :
         LET d == listener_scanned(chain)
             c0 == [NewCycle("listener", chain, d) EXCEPT
                        !.start = start_block, !.end = end_block, !.blk = start_block,
                        !.key = TRUE,
                        !.count0 = txCount[d][warden(opp_chain(d))]]
         IN  /\ cycles' = Append(cycles,
                    IF abi_ok THEN [c0 EXCEPT !.stage = "blocks"]
                    ELSE Ended(c0, "returned", "no_abi", -1))
             /\ faults' = IF abi_ok THEN faults ELSE faults + 1
             /\ faults' <= MaxFaults
    /\ attempts' = Append(attempts, <<>>)
    /\ UNCHANGED <<head, logs, txCount, keyCfg, eventfile>>

\* listener.py 63 and 85-88: a call of scan_blocks with any block arguments
ListenerStart(chain) ==
    \E s_latest \in BOOLEAN, e_latest \in BOOLEAN, s \in StartArgs, e \in EndArgs :
        ListenerCall(chain,
                     resolve_block(s_latest, s, listener_scanned(chain)),
                     resolve_block(e_latest, e, listener_scanned(chain)))

\* listener.py 159-165: the script run as a program scans the last blocks of the source
\* chain, then those of the destination chain (reached only if the first call returned)
ListenerMain(chain) ==
    /\ chain = "destination" =>
          \E i \in 1..Len(cycles) : /\ cycles[i].prog = "listener"
                                    /\ cycles[i].arg = "source"
                                    /\ cycles[i].status = "returned"
    /\ ListenerCall(chain, head[chain] - MAIN_LAG, head[chain])

\* listener.py 106-108: the filter of the next block and its entries
ListenerFetch(i) ==
    /\ i \in 1..Len(cycles)
    /\ cycles[i].prog = "listener"
    /\ cycles[i].status = "running"
    /\ cycles[i].queue = <<>>
    /\ cycles[i].blk <= cycles[i].end
    /\ LET c == cycles[i]
           found == FilterLogs(c.dir, listener_event_name(c.arg), c.blk, c.blk)
       IN  \E ok \in BOOLEAN :
             /\ faults' = IF ok THEN faults ELSE faults + 1
             /\ faults' <= MaxFaults
             /\ IF ok
                THEN \E order \in Orders(found) :
                       cycles' = SetCycle(i,
                           [c EXCEPT !.queue = order, !.blk = @ + 1,
                                     !.fetched = @ \cup {c.blk},
                                     !.nfound = @ + Cardinality(found)])
                ELSE \* nothing catches the exception
                     cycles' = SetCycle(i,
                           Ended([c EXCEPT !.failed = @ \cup {c.blk}],
                                 "raised", "exception", -1))
    /\ UNCHANGED <<head, logs, txCount, keyCfg, attempts, eventfile>>

\* listener.py 109-150: one pass of the inner loop, for the next event of the block.
\*   outcome : the call that raises, if any: "noncefail" 140, "gasfail" 145,
\*             "buildfail" 141, "sendfail" 147-149; none is caught
ListenerEvent(i) ==
    /\ i \in 1..Len(cycles)
    /\ cycles[i].prog = "listener"
    /\ cycles[i].status = "running"
    /\ cycles[i].queue # <<>>
    /\ LET c == cycles[i]
           chain == c.arg
           evt == Head(c.queue)
           call_args == listener_call_args(chain, evt)
           fn == target_fn(chain)
           \* 69-82: opp_account; 140-149: every call goes through w3, the scanned chain
           opp_account == warden(opp_chain(c.dir))
           w3 == c.dir
       IN  IF None \in {call_args[1], call_args[2]}
           THEN \* 111-124: evt.args[name] raises KeyError, before the row is appended
                /\ faults' = faults
                /\ attempts' = [attempts EXCEPT ![i] = Append(@,
                       Attempt(i, evt, fn, call_args, 0, "none", w3, opp_account,
                               "argsfail"))]
                /\ cycles' = SetCycle(i,
                       Ended([c EXCEPT !.queue = Tail(@)], "raised", "exception", -1))
           ELSE
           \E outcome \in {"noncefail", "gasfail", "buildfail", "sendfail", "sent"} :
             LET nonce_src == IF outcome = "noncefail" THEN "failed" ELSE "chain"
                 nonce == IF nonce_src = "chain" THEN txCount[w3][opp_account] ELSE 0
                 c1 == [c EXCEPT !.queue = Tail(@), !.rows = Append(@, Row(chain, evt))]
             IN  /\ faults' = IF outcome = "sent" THEN faults ELSE faults + 1
                 /\ faults' <= MaxFaults
                 /\ attempts' = [attempts EXCEPT ![i] = Append(@,
                        Attempt(i, evt, fn, call_args, nonce, nonce_src, w3, opp_account,
                                outcome))]
                 /\ cycles' = SetCycle(i,
                        IF outcome = "sent" THEN c1
                        ELSE Ended(c1, "raised", "exception", -1))
    /\ UNCHANGED <<head, logs, txCount, keyCfg, eventfile>>

\* listener.py 152-154
ListenerFinish(i) ==
    /\ i \in 1..Len(cycles)
    /\ cycles[i].prog = "listener"
    /\ cycles[i].status = "running"
    /\ cycles[i].queue = <<>>
    /\ cycles[i].blk > cycles[i].end
    /\ eventfile' = log_events(cycles[i].rows, eventfile)
    /\ cycles' = SetCycle(i, Ended(cycles[i], "returned", "done", -1))
    /\ UNCHANGED <<head, logs, txCount, keyCfg, attempts, faults>>

\* ------------------------------------------------------ the specification
Next ==
    \/ \E c \in Chain, k \in 0..MaxLogs : MineBlock(c, k)
    \/ \E c \in Chain, a \in Account : Confirm(c, a)
    \/ \E chain \in ChainNames : BridgeStart(chain)
    \/ \E i \in 1..MaxCycles : BridgeEvent(i)
    \/ \E i \in 1..MaxCycles : BridgeFinish(i)
    \/ \E chain \in ChainNames : ListenerStart(chain)
    \/ \E i \in 1..MaxCycles : ListenerFetch(i)
    \/ \E i \in 1..MaxCycles : ListenerEvent(i)
    \/ \E i \in 1..MaxCycles : ListenerFinish(i)

Spec == Init /\ [][Next]_vars

\* The same scripts against bridge contracts whose ABI may name the event fields
\* either way (token/recipient or underlying_token/to).
NextAlias ==
    \/ \E c \in Chain, k \in 0..MaxLogs : MineBlockAlias(c, k)
    \/ \E chain \in Chain : BridgeStart(chain)
    \/ \E i \in 1..MaxCycles : BridgeEvent(i)
    \/ \E i \in 1..MaxCycles : BridgeFinish(i)
    \/ \E chain \in Chain : ListenerStart(chain)
    \/ \E i \in 1..MaxCycles : ListenerFetch(i)
    \/ \E i \in 1..MaxCycles : ListenerEvent(i)
    \/ \E i \in 1..MaxCycles : ListenerFinish(i)

SpecAlias == Init /\ [][NextAlias]_vars

\* The programs as they are run (bridge.scan_blocks(chain), listener.py's __main__)
\* on chains of any height up to MaxLatest; each chain may hold one event, in the
\* block before its head.
InitWindow ==
    /\ head \in [Chain -> 0..MaxLatest]
    /\ \E on \in SUBSET {c \in Chain : head[c] >= 1} :
       \E pay \in [on -> Tokens \X Recipients \X Amounts] :
          logs = {[chain |-> c, kind |-> event_of(c), names |-> names_of(event_of(c)),
                   blk |-> head[c] - 1, idx |-> 0,
                   token |-> pay[c][1], recipient |-> pay[c][2], amount |-> pay[c][3]]
                  : c \in on}
    /\ txCount = [c \in Chain |-> [a \in Account |-> 0]]
    /\ keyCfg \in [Chain -> KeyStates]
    /\ cycles = <<>>
    /\ attempts = <<>>
    /\ eventfile = <<>>
    /\ faults = 0

NextWindow ==
    \/ \E chain \in Chain : BridgeStart(chain)
    \/ \E i \in 1..MaxCycles : BridgeEvent(i)
    \/ \E i \in 1..MaxCycles : BridgeFinish(i)
    \/ \E chain \in Chain : ListenerMain(chain)
    \/ \E i \in 1..MaxCycles : ListenerFetch(i)
    \/ \E i \in 1..MaxCycles : ListenerEvent(i)
    \/ \E i \in 1..MaxCycles : ListenerFinish(i)

SpecWindow == InitWindow /\ [][NextWindow]_vars

\* ------------------------------------------------------------ the claims
\* attempts that signed and tried to broadcast a transaction
Submitted == {p \in Made : At(p).outcome \in {"sent", "sendfail"}}
\* p was made before q by the same script
Earlier(p, q) == p[1] < q[1] \/ (p[1] = q[1] /\ p[2] < q[2])
SameEvent(p, q) == EvtId(At(p).evt) = EvtId(At(q).evt) /\ At(p).prog = At(q).prog
\* (blockNumber, logIndex) of e comes before that of f
Before(e, f) == e.blk < f.blk \/ (e.blk = f.blk /\ e.idx < f.idx)
HasEnded(i) == cycles[i].status # "running"

\* C1: no (sourceTxHash, logIndex) pair is ever submitted twice by one script:
\* two broadcast transactions never relay the same event.
C1_NoDoubleSubmission ==
    \A p, q \in Sent : SameEvent(p, q) => p = q

\* C2: the j-th transaction a cycle broadcasts carries the nonce n + j - 1, n being
\* the signing account's transaction count when the cycle started (stated for the
\* cycles in which every read of the count succeeded).
C2_NonceMonotonic ==
    \A p \in Sent :
        (\A k \in 1..Len(attempts[p[1]]) : attempts[p[1]][k].nonce_src = "chain") =>
            At(p).nonce = cycles[p[1]].count0
                          + Cardinality({q \in Sent : q[1] = p[1] /\ q[2] < p[2]})

\* C3: within one cycle the transactions are broadcast in ascending
\* (blockNumber, logIndex) order of their events.
C3_AscendingOrder ==
    \A p, q \in Sent : p[1] = q[1] /\ p[2] < q[2] => Before(At(p).evt, At(q).evt)

\* C4: every Deposit event is observed on the source chain and mapped to wrap, every
\* Unwrap event is observed on the destination chain and mapped to withdraw, and no
\* other function is ever the target of a cycle.
C4_TotalMapping ==
    \A p \in Made :
        /\ At(p).fn \in {"wrap", "withdraw"}
        /\ At(p).evt.kind = "Deposit" <=> At(p).dir = "source"
        /\ At(p).evt.kind = "Deposit" => At(p).fn = "wrap"
        /\ At(p).evt.kind = "Unwrap" => At(p).fn = "withdraw"

\* both scripts have relayed an event of each kind
C4_Witness ==
    /\ \E p \in Sent : At(p).evt.kind = "Deposit" /\ At(p).fn = "wrap"
    /\ \E p \in Sent : At(p).evt.kind = "Unwrap" /\ At(p).fn = "withdraw"
    /\ \E p \in Sent : At(p).prog = "listener"
    /\ \E p \in Sent : At(p).prog = "bridge"

\* C5: a cycle scanning chain C broadcasts only on the chain opposite to C, and reads
\* the nonce there.
C5_WritesOnOpposite ==
    \A p \in Made :
        At(p).outcome \in {"sent", "sendfail"} \/ At(p).nonce_src = "chain"
            => At(p).on = opp_chain(At(p).dir)

\* a bridge.py cycle whose opposite chain has no usable warden key
DryCycle(i) == cycles[i].prog = "bridge" /\ keyCfg[opp_chain(cycles[i].dir)] # "ok"

C7_FetchFailureSkipsBlock ==
    \A i \in 1..Len(cycles) :
        HasEnded(i) /\ cycles[i].failed # {} /\ cycles[i].start < cycles[i].end =>
            /\ cycles[i].stage = "done"
            /\ cycles[i].fetched = (cycles[i].start .. cycles[i].end) \ cycles[i].failed

\* C8: a cycle that has ended has processed every event it fetched, whatever
\* happened to the events before it.
C8_PerEventIsolation ==
    \A i \in 1..Len(cycles) : HasEnded(i) => Len(attempts[i]) = cycles[i].nfound

\* C9: an event whose submission failed is never submitted again, neither by the
\* same cycle nor by a later one.
C9_FailedIsTerminal ==
    \A p, q \in Submitted :
        At(p).outcome = "sendfail" /\ SameEvent(p, q) /\ Earlier(p, q) => FALSE

\* C10: when the read of the account's transaction count fails, nothing is built,
\* signed or broadcast in that cycle, and no placeholder nonce reaches a broadcast.
C10_NonceFailureAborts ==
    \A p \in Made :
        At(p).nonce_src = "failed" =>
            \A q \in Made : q[1] = p[1] => At(q).outcome \notin {"sent", "sendfail", "buildfail"}

\* C11: a cycle called with a chain name other than "source" or "destination" ends
\* at once without side effects: no block is fetched, no event is processed, no
\* audit row is collected.
C11_InvalidChainNoEffect ==
    \A i \in 1..Len(cycles) :
        cycles[i].arg \notin {"source", "destination"} =>
            /\ cycles[i].status = "returned"
            /\ cycles[i].fetched = {} /\ cycles[i].failed = {}
            /\ attempts[i] = <<>>
            /\ cycles[i].rows = <<>>

\* C12 as stated: on a configuration error (contract info unreadable, address or
\* abi missing, event missing from the abi, signing key missing) the cycle aborts
\* before any log is fetched and before any event is processed.
C12_ConfigErrorAborts ==
    \A i \in 1..Len(cycles) :
        \/ cycles[i].stage \in {"config", "no_abi"}
        \/ /\ cycles[i].prog = "bridge"
           /\ cycles[i].arg \in {"source", "destination"}
           /\ ~opp_private_key(cycles[i].dir)
        => /\ cycles[i].fetched = {}
           /\ attempts[i] = <<>>

\* C12 amended: a cycle that fails to load the contract info, or finds no event in
\* the abi, returns before any block is fetched, any event processed or any audit
\* row collected; a bridge.py cycle without signing key goes on but signs and
\* broadcasts nothing.
C12_ConfigErrorBeforeFetch ==
    \A i \in 1..Len(cycles) :
        /\ cycles[i].stage \in {"config", "no_abi"} =>
              /\ cycles[i].status = "returned"
              /\ cycles[i].fetched = {} /\ cycles[i].failed = {}
              /\ attempts[i] = <<>>
              /\ cycles[i].rows = <<>>
        /\ cycles[i].prog = "bridge" /\ cycles[i].arg \in {"source", "destination"}
             /\ ~opp_private_key(cycles[i].dir) =>
              \A k \in 1..Len(attempts[i]) :
                  attempts[i][k].outcome \notin {"sent", "sendfail"}

\* a cycle that stopped on unreadable contract info although its chain holds an
\* event it would have fetched
C12_Witness ==
    \E i \in 1..Len(cycles) :
        /\ cycles[i].stage = "config"
        /\ \E l \in logs : l.chain = cycles[i].dir /\ l.kind = bridge_event_name(cycles[i].dir)

\* what happened in cycle i: the events it found, the transactions it broadcast, the
\* events whose relay failed
Counts(i) ==
    <<cycles[i].nfound,
      Cardinality({k \in 1..Len(attempts[i]) : attempts[i][k].outcome = "sent"}),
      Cardinality({k \in 1..Len(attempts[i]) :
                      attempts[i][k].outcome \notin {"sent", "dryrun"}})>>

\* C15: the value a cycle returns reports what happened in it (events found,
\* submitted, failed): two cycles of one script that return the same value found,
\* submitted and failed the same numbers of events.
C15_ReportTellsCounts ==
    \A i, j \in 1..Len(cycles) :
        /\ cycles[i].status = "returned" /\ cycles[j].status = "returned"
        /\ cycles[i].prog = cycles[j].prog
        /\ cycles[i].stage = "done" /\ cycles[j].stage = "done"
        /\ cycles[i].ret = cycles[j].ret
        => Counts(i) = Counts(j)

\* C19: the account's transaction count is read once per cycle: at most one
\* attempt of a cycle carries a nonce that was read from the chain for it.
C19_NonceReadOncePerCycle ==
    \A i \in 1..Len(attempts) :
        Cardinality({k \in 1..Len(attempts[i]) :
                        attempts[i][k].nonce_src = "chain"}) <= 1

\* C20: a bridge.py cycle that returns answers 0 or 1; it answers 0 exactly when it
\* stopped before the logs of its window were fetched (invalid chain, contract info,
\* head, fetch), and then it has processed no event and broadcast nothing; it
\* answers 1 in every other case, also when the window held no event and when every
\* build or broadcast failed.
C20_ReturnValue ==
    \A i \in 1..Len(cycles) :
        cycles[i].prog = "bridge" /\ cycles[i].status = "returned" =>
            /\ cycles[i].ret \in {0, 1}
            /\ cycles[i].ret = 0 <=> cycles[i].fetched = {}
            /\ cycles[i].ret = 0 => attempts[i] = <<>>
            /\ cycles[i].ret = 1 => Len(attempts[i]) = cycles[i].nfound

\* two returned bridge.py cycles, one that answered 1 although the relay of its only
\* event failed, one that answered 1 on a window without event
C20_Witness ==
    \E i, j \in 1..Len(cycles) :
        /\ cycles[i].prog = "bridge" /\ cycles[i].status = "returned"
        /\ cycles[i].ret = 1
        /\ attempts[i] # <<>>
        /\ \A k \in 1..Len(attempts[i]) : attempts[i][k].outcome \in {"buildfail", "sendfail"}
        /\ cycles[j].prog = "bridge" /\ cycles[j].status = "returned"
        /\ cycles[j].ret = 1 /\ cycles[j].nfound = 0

\* the transactions of the same script and direction as attempt p that were
\* broadcast before it
OwnEarlierSent(p) ==
    {q \in Sent : /\ At(q).prog = At(p).prog
                  /\ At(q).dir = At(p).dir
                  /\ Earlier(q, p)}

\* C17: the two directions of a script do not interfere, however their cycles are
\* interleaved: they write to different chains (so they never share a nonce counter),
\* every transaction of a cycle goes to that cycle's one target chain from its one
\* account, and a nonce read from the chain counts only transactions that the same
\* direction broadcast earlier.
C17_NoInterference ==
    /\ \A p, q \in Made :
          At(p).prog = At(q).prog /\ At(p).dir # At(q).dir => At(p).on # At(q).on
    /\ \A p, q \in Made :
          p[1] = q[1] /\ At(p).from # None /\ At(q).from # None =>
              At(p).on = At(q).on /\ At(p).from = At(q).from
    /\ \A p \in Made :
          At(p).nonce_src = "chain" => At(p).nonce <= Cardinality(OwnEarlierSent(p))

\* two cycles of one script, one per direction, are in flight together and each has
\* broadcast a transaction
C17_Witness ==
    \E i, j \in 1..Len(cycles) :
        /\ cycles[i].prog = cycles[j].prog
        /\ cycles[i].dir # cycles[j].dir
        /\ cycles[i].status = "running" /\ cycles[j].status = "running"
        /\ \E k \in 1..Len(attempts[i]) : attempts[i][k].outcome = "sent"
        /\ \E k \in 1..Len(attempts[j]) : attempts[j][k].outcome = "sent"

\* C14: when a cycle has ended, each event it fetched has produced exactly one relay
\* call, and the call carries the event's own token, recipient and amount.
C14_OneCallPerEvent ==
    \A i \in 1..Len(cycles) :
        HasEnded(i) =>
            /\ Len(attempts[i]) = cycles[i].nfound
            /\ \A k, m \in 1..Len(attempts[i]) :
                  EvtId(attempts[i][k].evt) = EvtId(attempts[i][m].evt) => k = m
            /\ \A k \in 1..Len(attempts[i]) :
                  LET a == attempts[i][k]
                  IN  a.args = <<a.evt.token, a.evt.recipient, a.evt.amount>>

\* C16: whichever of the two namings an event's fields carry, the event is decoded:
\* no relay stops on a field name, and the call gets the event's token, recipient
\* and amount.
C16_AliasRobust ==
    \A p \in Made :
        /\ At(p).outcome # "argsfail"
        /\ At(p).args = <<At(p).evt.token, At(p).evt.recipient, At(p).evt.amount>>

\* C13: every cycle that got as far as its scan window scans [max(0, latest - 5),
\* latest]: the start block is never negative and never after the end block, the end
\* block is the head of the scanned chain (the heads stand still in SpecWindow), and
\* a cycle that ran to its end has fetched every block of the window.
C13_ScanWindow ==
    \A i \in 1..Len(cycles) :
        cycles[i].stage \notin {"invalid_chain", "config", "head", "no_abi"} =>
            /\ cycles[i].start >= 0
            /\ cycles[i].start <= cycles[i].end
            /\ cycles[i].start = Max(0, cycles[i].end - LAG)
            /\ cycles[i].end = head[cycles[i].dir]
            /\ cycles[i].stage \in {"no_events", "done"} =>
                  cycles[i].fetched = cycles[i].start..cycles[i].end

\* C18: the phases of a cycle follow one another: when a cycle (over a window of
\* real blocks) makes its first relay attempt, every block of its window has been
\* fetched, or has failed to be.
C18_FetchesBeforeSubmission ==
    \A i \in 1..Len(cycles) :
        cycles[i].start >= 0 /\ attempts[i] # <<>> =>
            \A b \in cycles[i].start..cycles[i].end :
                b \in cycles[i].fetched \cup cycles[i].failed

\* the rows of the event file that record event e
RowsOf(e) == {k \in 1..Len(eventfile) : eventfile[k].transactionHash = EvtId(e)}

\* the broadcasts of e's relay made by listener.py cycles that have ended
EndedBroadcastsOf(e) ==
    {p \in Sent : /\ At(p).prog = "listener"
                  /\ HasEnded(p[1])
                  /\ EvtId(At(p).evt) = EvtId(e)}

\* C21: the event file of listener.py agrees with what was broadcast: once its
\* cycles have ended, however they ended, each event has exactly as many rows in the
\* file as relay transactions were broadcast for it (so a cycle without events adds
\* no row, and a broadcast from a cycle that later raised still has its row).
C21_AuditMatchesBroadcasts ==
    \A e \in logs : Cardinality(RowsOf(e)) = Cardinality(EndedBroadcastsOf(e))

====
